---- MODULE Spec2Model ----
(***************************************************************************)
(* Model of the data layer in src/database/booking.model.ts: the Booking   *)
(* pre-save hook (validateBooking), the Event pre-save hook                *)
(* (handleNormalize, with toSlug / normalizeDate / normalizeTime) and the  *)
(* cached connection helper (connectToDatabase).                           *)
(*                                                                         *)
(* JavaScript strings are modelled as sequences of one-character strings,  *)
(* so that trim, toLowerCase and the regular expressions are computed.     *)
(***************************************************************************)
EXTENDS Integers, Sequences, FiniteSets, TLC

\* ------------------------------------------------------------------ bounds
\* Longest run of blanks put around / inside the generated time inputs.
MaxPad == 1
\* Callers of connectToDatabase.
NumCallers == 2
\* Connection establishments (mongoose.connect calls) that may be started.
MaxAttempts == 2
\* Event _ids known to the store in the booking scenario.
MaxEventId == 2
\* Event documents that may be persisted in the event scenario.
MaxEvents == 2

\* ----------------------------------------------------------- JS strings
Str0 == << >>
\* The value `undefined` of a missing field.
Undefined == <<"undefined">>

DigitChars == <<"0", "1", "2", "3", "4", "5", "6", "7", "8", "9">>
LowerLetters == {"a", "b", "c", "d", "m", "p", "x", "z"}

IsDigit(c) == \E i \in 1..10 : DigitChars[i] = c
DigitVal(c) == (CHOOSE i \in 1..10 : DigitChars[i] = c) - 1
\* \s of the regular expressions and the blanks String.prototype.trim removes.
IsSpace(c) == c = " "

\* String.prototype.toLowerCase, on the letters the inputs use.
LowerChar(c) ==
  CASE c = "A" -> "a"
    [] c = "B" -> "b"
    [] c = "M" -> "m"
    [] c = "P" -> "p"
    [] OTHER -> c
toLowerCase(s) == [i \in 1..Len(s) |-> LowerChar(s[i])]

RECURSIVE TrimStart(_)
TrimStart(s) ==
  IF s # Str0 /\ IsSpace(Head(s)) THEN TrimStart(Tail(s)) ELSE s
RECURSIVE TrimEnd(_)
TrimEnd(s) ==
  IF s # Str0 /\ IsSpace(s[Len(s)]) THEN TrimEnd(SubSeq(s, 1, Len(s) - 1)) ELSE s
\* String.prototype.trim
trim(s) == TrimEnd(TrimStart(s))

\* Number(h) for a string of decimal digits.
RECURSIVE NumberOf(_)
NumberOf(s) ==
  IF s = Str0 THEN 0 ELSE 10 * NumberOf(SubSeq(s, 1, Len(s) - 1)) + DigitVal(s[Len(s)])
\* Number.prototype.toString for a natural number.
RECURSIVE NumToString(_)
NumToString(n) ==
  IF n < 10 THEN <<DigitChars[n + 1]>>
  ELSE NumToString(n \div 10) \o <<DigitChars[(n % 10) + 1]>>
\* String.prototype.padStart(2, '0')
padStart2(s) ==
  IF Len(s) >= 2 THEN s
  ELSE IF Len(s) = 1 THEN <<"0">> \o s
  ELSE <<"0", "0">>

\* n blanks
Blanks(n) == [i \in 1..n |-> " "]

\* ------------------------------------------------------------ results
Ok(v) == [ok |-> TRUE, value |-> v, error |-> "none"]
Throw(msg) == [ok |-> FALSE, value |-> Str0, error |-> msg]

\* ---------------------------------------------------------------- toSlug
IsSlugChar(c) == c \in LowerLetters \/ IsDigit(c) \/ IsSpace(c) \/ c = "-"
\* .replace(/[^a-z0-9\s-]/g, '')
StripNonSlug(s) == SelectSeq(s, IsSlugChar)
\* .replace(/\s+/g, '-')
RECURSIVE SpacesToHyphen(_)
SpacesToHyphen(s) ==
  IF s = Str0 THEN Str0
  ELSE IF IsSpace(Head(s)) THEN <<"-">> \o SpacesToHyphen(TrimStart(s))
  ELSE <<Head(s)>> \o SpacesToHyphen(Tail(s))
\* .replace(/-+/g, '-')
RECURSIVE CollapseHyphens(_)
CollapseHyphens(s) ==
  IF s = Str0 THEN Str0
  ELSE IF Head(s) = "-" /\ Len(s) >= 2 /\ s[2] = "-" THEN CollapseHyphens(Tail(s))
  ELSE <<Head(s)>> \o CollapseHyphens(Tail(s))
toSlug(value) ==
  CollapseHyphens(SpacesToHyphen(StripNonSlug(trim(toLowerCase(value)))))

\* --------------------------------------------------------- normalizeDate
AllDigits(s) == \A i \in 1..Len(s) : IsDigit(s[i])
\* A calendar date YYYY-MM-DD (month 01-12, day 01-28, so that the day exists
\* in every month).
IsIsoDate(s) ==
  /\ Len(s) = 10
  /\ s[5] = "-" /\ s[8] = "-"
  /\ AllDigits(SubSeq(s, 1, 4)) /\ AllDigits(SubSeq(s, 6, 7)) /\ AllDigits(SubSeq(s, 9, 10))
  /\ NumberOf(SubSeq(s, 6, 7)) \in 1..12
  /\ NumberOf(SubSeq(s, 9, 10)) \in 1..28
\* A UTC timestamp YYYY-MM-DDTHH:MM:SSZ.
IsIsoDateTimeZ(s) ==
  /\ Len(s) = 20
  /\ IsIsoDate(SubSeq(s, 1, 10))
  /\ s[11] = "T" /\ s[14] = ":" /\ s[17] = ":" /\ s[20] = "Z"
  /\ AllDigits(SubSeq(s, 12, 13)) /\ AllDigits(SubSeq(s, 15, 16)) /\ AllDigits(SubSeq(s, 18, 19))
  /\ NumberOf(SubSeq(s, 12, 13)) \in 0..23
  /\ NumberOf(SubSeq(s, 15, 16)) \in 0..59
  /\ NumberOf(SubSeq(s, 18, 19)) \in 0..59
\* new Date(value) on the date shapes the inputs use (an ISO date, parsed as UTC
\* midnight; an ISO UTC timestamp; anything else of the inputs is no date), then
\* toISOString().split('T')[0].
normalizeDate(value) ==
  IF IsIsoDate(value) THEN Ok(value)
  ELSE IF IsIsoDateTimeZ(value) THEN Ok(SubSeq(value, 1, 10))
  ELSE Throw("Invalid date format.")

\* --------------------------------------------------------- normalizeTime
\* /^(\d{1,2}):(\d{2})\s*(am|pm)$/i with an hour of hl digits
TwelveHourAt(s, hl) ==
  /\ Len(s) >= hl + 5
  /\ AllDigits(SubSeq(s, 1, hl))
  /\ s[hl + 1] = ":"
  /\ AllDigits(SubSeq(s, hl + 2, hl + 3))
  /\ \A i \in (hl + 4)..(Len(s) - 2) : IsSpace(s[i])
  /\ LowerChar(s[Len(s) - 1]) \in {"a", "p"}
  /\ LowerChar(s[Len(s)]) = "m"
twelveHour(s) == TwelveHourAt(s, 1) \/ TwelveHourAt(s, 2)
\* the hour group's length in a match of twelveHour
TwelveHourLen(s) == IF TwelveHourAt(s, 1) THEN 1 ELSE 2

\* ([01]?\d|2[0-3])
IsHour24(h) ==
  \/ Len(h) = 1 /\ IsDigit(h[1])
  \/ Len(h) = 2 /\ h[1] \in {"0", "1"} /\ IsDigit(h[2])
  \/ Len(h) = 2 /\ h[1] = "2" /\ h[2] \in {"0", "1", "2", "3"}
\* /^([01]?\d|2[0-3]):([0-5]\d)$/ with an hour of hl digits
TwentyFourHourAt(s, hl) ==
  /\ Len(s) = hl + 3
  /\ IsHour24(SubSeq(s, 1, hl))
  /\ s[hl + 1] = ":"
  /\ s[hl + 2] \in {"0", "1", "2", "3", "4", "5"}
  /\ IsDigit(s[hl + 3])
twentyFourHour(s) == TwentyFourHourAt(s, 1) \/ TwentyFourHourAt(s, 2)

normalizeTime(value) ==
  LET trimmed == trim(toLowerCase(value)) IN
  IF twelveHour(trimmed) THEN
    LET hl == TwelveHourLen(trimmed)
        hourNum == NumberOf(SubSeq(trimmed, 1, hl))
        minutes == SubSeq(trimmed, hl + 2, hl + 3)
        meridiem == toLowerCase(SubSeq(trimmed, Len(trimmed) - 1, Len(trimmed)))
        normalizedHour ==
          IF meridiem = <<"p", "m">> /\ hourNum # 12 THEN hourNum + 12
          ELSE IF meridiem = <<"a", "m">> /\ hourNum = 12 THEN 0
          ELSE hourNum
    IN Ok(padStart2(NumToString(normalizedHour)) \o <<":">> \o minutes)
  ELSE IF twentyFourHour(trimmed) THEN
    LET hl == Len(trimmed) - 3
    IN Ok(padStart2(SubSeq(trimmed, 1, hl)) \o <<":">> \o SubSeq(trimmed, hl + 2, hl + 3))
  ELSE Throw("Invalid time format. Use HH:MM or HH:MM AM/PM.")


\* ================================================================ state
VARIABLES
  \* --- connection cache (connectToDatabase)
  uri,            \* process.env.MONGODB_URI is set
  cachedConn,     \* cached.conn: Null or the handle of a connection
  cachedPromise,  \* cached.promise: Null or the establishment it belongs to
  attempt,        \* per establishment: how far its promise chain has settled
  strictQuery,    \* mongooseInstance.set('strictQuery', true) has run
  cpc,            \* per caller: idle / awaiting / returned / threw
  cawait,         \* per caller: the establishment whose promise it awaits
  cres,           \* per caller: what its call produced
  handed,         \* every handle a call has returned so far
  \* --- bookings (validateBooking and the store)
  eventIds,       \* _ids of the Events in the store
  bookings,       \* persisted Booking documents
  bpc,            \* per save: idle / lookup / write / done
  bdoc,           \* per save: the in-memory document
  bres,           \* per save: outcome of the last save
  \* --- events (handleNormalize and the store)
  evStore,        \* persisted Event documents
  evPc,           \* idle / write
  evDoc,          \* the in-memory document under save
  evRes,          \* outcome of the last save
  slugByCaller,   \* _ids whose slug the caller has assigned directly
  \* --- normalizeTime alone
  timeIn,         \* the input string
  timeOut,        \* the result of normalizeTime on it
  timePc          \* input / done

connVars == <<uri, cachedConn, cachedPromise, attempt, strictQuery, cpc, cawait, cres, handed>>
bookVars == <<eventIds, bookings, bpc, bdoc, bres>>
eventVars == <<evStore, evPc, evDoc, evRes, slugByCaller>>
timeVars == <<timeIn, timeOut, timePc>>
vars == <<connVars, bookVars, eventVars, timeVars>>
\* What each component leaves alone: the other components' state.
notConn == <<bookVars, eventVars, timeVars>>
notBook == <<connVars, eventVars, timeVars>>
notEvent == <<connVars, bookVars, timeVars>>
notTime == <<connVars, bookVars, eventVars>>

Null == 0

\* ===================================================== connectToDatabase
Callers == 1..NumCallers
Attempts == 1..MaxAttempts

NoResult == [kind |-> "none", handle |-> Null]
Handle(h) == [kind |-> "handle", handle |-> h]
Failure(k) == [kind |-> k, handle |-> Null]

ConnInit ==
  /\ uri = TRUE
  /\ cachedConn = Null
  /\ cachedPromise = Null
  /\ attempt = [a \in Attempts |-> "unused"]
  /\ strictQuery = FALSE
  /\ cpc = [c \in Callers |-> "idle"]
  /\ cawait = [c \in Callers |-> Null]
  /\ cres = [c \in Callers |-> NoResult]
  /\ handed = {}

\* The connection cache while another component is examined: untouched.
ConnIdle ==
  /\ uri = TRUE
  /\ cachedConn = Null
  /\ cachedPromise = Null
  /\ attempt = << >>
  /\ strictQuery = FALSE
  /\ cpc = << >>
  /\ cawait = << >>
  /\ cres = << >>
  /\ handed = {}

\* if (cached.conn)
HasLiveConnSkipped == FALSE
HasLiveConn == cachedConn # Null

\* if (!cached.promise)
NoPromiseAlways == TRUE
NoPromise == cachedPromise = Null

\* The synchronous part of a call, up to `await cached.promise`.
connectToDatabase(c) ==
  /\ cpc[c] = "idle"
  /\ IF ~uri THEN
       /\ cpc' = [cpc EXCEPT ![c] = "threw"]
       /\ cres' = [cres EXCEPT ![c] = Failure("ConfigurationError")]
       /\ UNCHANGED <<cachedPromise, attempt, cawait, handed>>
     ELSE IF HasLiveConn THEN
       /\ cpc' = [cpc EXCEPT ![c] = "returned"]
       /\ cres' = [cres EXCEPT ![c] = Handle(cachedConn)]
       /\ handed' = handed \cup {cachedConn}
       /\ UNCHANGED <<cachedPromise, attempt, cawait>>
     ELSE IF NoPromise THEN
       /\ \E a \in Attempts :
            /\ attempt[a] = "unused"
            /\ \A b \in Attempts : b < a => attempt[b] # "unused"
            /\ attempt' = [attempt EXCEPT ![a] = "connecting"]
            /\ cachedPromise' = a
            /\ cawait' = [cawait EXCEPT ![c] = a]
       /\ cpc' = [cpc EXCEPT ![c] = "awaiting"]
       /\ UNCHANGED <<cres, handed>>
     ELSE
       /\ cpc' = [cpc EXCEPT ![c] = "awaiting"]
       /\ cawait' = [cawait EXCEPT ![c] = cachedPromise]
       /\ UNCHANGED <<cachedPromise, attempt, cres, handed>>
  /\ UNCHANGED <<uri, cachedConn, strictQuery, notConn>>

\* mongoose.connect(uri, options) settles.
ConnectSettles(a, ok) ==
  /\ attempt[a] = "connecting"
  /\ attempt' = [attempt EXCEPT ![a] = IF ok THEN "connected" ELSE "connectFailed"]
  /\ UNCHANGED <<uri, cachedConn, cachedPromise, strictQuery, cpc, cawait, cres, handed, notConn>>

\* .then((mongooseInstance) => { ...set('strictQuery', true); return it })
thenHandler(a) ==
  /\ attempt[a] \in {"connected", "connectFailed"}
  /\ IF attempt[a] = "connected"
       THEN /\ strictQuery' = TRUE
            /\ attempt' = [attempt EXCEPT ![a] = "thenFulfilled"]
       ELSE /\ attempt' = [attempt EXCEPT ![a] = "thenRejected"]
            /\ UNCHANGED strictQuery
  /\ UNCHANGED <<uri, cachedConn, cachedPromise, cpc, cawait, cres, handed, notConn>>

\* .catch((error) => { cached.promise = null; throw error })
catchHandlerKeepsPromise(a) ==
  /\ attempt[a] \in {"thenFulfilled", "thenRejected"}
  /\ attempt' = [attempt EXCEPT ![a] =
                   IF attempt[a] = "thenFulfilled" THEN "fulfilled" ELSE "rejected"]
  /\ UNCHANGED <<uri, cachedConn, cachedPromise, strictQuery, cpc, cawait, cres, handed, notConn>>
catchHandler(a) ==
  /\ attempt[a] \in {"thenFulfilled", "thenRejected"}
  /\ IF attempt[a] = "thenFulfilled"
       THEN /\ attempt' = [attempt EXCEPT ![a] = "fulfilled"]
            /\ UNCHANGED cachedPromise
       ELSE /\ attempt' = [attempt EXCEPT ![a] = "rejected"]
            /\ cachedPromise' = Null
  /\ UNCHANGED <<uri, cachedConn, strictQuery, cpc, cawait, cres, handed, notConn>>

\* cached.conn = await cached.promise; return cached.conn;
Resume(c) ==
  /\ cpc[c] = "awaiting"
  /\ attempt[cawait[c]] \in {"fulfilled", "rejected"}
  /\ IF attempt[cawait[c]] = "fulfilled"
       THEN /\ cachedConn' = cawait[c]
            /\ cpc' = [cpc EXCEPT ![c] = "returned"]
            /\ cres' = [cres EXCEPT ![c] = Handle(cawait[c])]
            /\ handed' = handed \cup {cawait[c]}
       ELSE /\ cpc' = [cpc EXCEPT ![c] = "threw"]
            /\ cres' = [cres EXCEPT ![c] = Failure("ConnectionError")]
            /\ UNCHANGED <<cachedConn, handed>>
  /\ UNCHANGED <<uri, cachedPromise, attempt, strictQuery, cawait, notConn>>

\* The caller has its result and may call again.
CallerContinues(c) ==
  /\ cpc[c] \in {"returned", "threw"}
  /\ cpc' = [cpc EXCEPT ![c] = "idle"]
  /\ cres' = [cres EXCEPT ![c] = NoResult]
  /\ cawait' = [cawait EXCEPT ![c] = Null]
  /\ UNCHANGED <<uri, cachedConn, cachedPromise, attempt, strictQuery, handed, notConn>>

\* The environment variable is set or removed between calls.
SetEnv ==
  /\ uri' = ~uri
  /\ UNCHANGED <<cachedConn, cachedPromise, attempt, strictQuery, cpc, cawait, cres, handed, notConn>>

ConnNext ==
  \/ \E c \in Callers : connectToDatabase(c)
  \/ \E a \in Attempts : \E ok \in BOOLEAN : ConnectSettles(a, ok)
  \/ \E a \in Attempts : thenHandler(a)
  \/ \E a \in Attempts : catchHandler(a)
  \/ \E c \in Callers : Resume(c)
  \/ \E c \in Callers : CallerContinues(c)
  \/ SetEnv

\* ========================================================= normalizeTime
TimeDigits == {"0", "1", "2", "3", "5", "6", "9"}
DigitStrings(n) == [1..n -> TimeDigits]
Meridiems == {Str0, <<"a", "m">>, <<"p", "m">>, <<"A", "M">>, <<"P", "m">>, <<"x", "m">>}
\* pad H{1,2} : M{1,2} blanks meridiem pad
TimeInputs ==
  { Blanks(p) \o h \o <<":">> \o m \o Blanks(w) \o mer \o Blanks(p) :
      p \in 0..MaxPad, w \in 0..MaxPad,
      h \in DigitStrings(1) \cup DigitStrings(2),
      m \in DigitStrings(1) \cup DigitStrings(2),
      mer \in Meridiems }

TimeInit ==
  /\ timeIn \in TimeInputs
  /\ timeOut = Throw("none")
  /\ timePc = "input"

\* No normalizeTime call while another component is examined.
TimeIdle ==
  /\ timeIn = Str0
  /\ timeOut = Throw("none")
  /\ timePc = "idle"

NormalizeTimeCall ==
  /\ timePc = "input"
  /\ timeOut' = normalizeTime(timeIn)
  /\ timePc' = "done"
  /\ UNCHANGED <<timeIn, notTime>>

TimeNext == NormalizeTimeCall

\* ======================================================= Booking documents
\* Two saves of Booking documents may be under way at once.
Savers == {"s1", "s2"}
EventIdSet == 1..MaxEventId
\* The _ids of the Booking documents: one for each save that can be under way.
BookingIds == {1, 2}
\* A value that is no ObjectId (Types.ObjectId.isValid is false on it).
InvalidId == 0

RawEmails ==
  { <<"a", "@", "b", ".", "c">>,
    <<" ", "A", "@", "b", ".", "c", " ">>,
    <<"a", "@", "b">>,
    <<"a", " ", "b", "@", "b", ".", "c">>,
    <<" ", " ">> }

\* email: { type: String, trim: true, lowercase: true }: the setters run when the
\* field is assigned.
emailSetterTrimOnly(raw) == trim(raw)
emailSetter(raw) == toLowerCase(trim(raw))

\* /^[^\s@]+@[^\s@]+\.[^\s@]+$/
isValidEmail(value) ==
  \E i \in 2..Len(value) :
    /\ value[i] = "@"
    /\ \A k \in 1..Len(value) : k # i => ~IsSpace(value[k]) /\ value[k] # "@"
    /\ \E j \in (i + 2)..(Len(value) - 1) : value[j] = "."

isValidObjectId(value) == value # InvalidId

NoDoc ==
  [id |-> 0, eventId |-> InvalidId, email |-> Str0, raw |-> Str0, isNew |-> FALSE,
   eventIdModified |-> FALSE, emailModified |-> FALSE, eventExists |-> FALSE]

\* this.isNew || this.isModified('eventId')
NeedsLookupOnlyWhenNew(doc) == doc.isNew
NeedsLookup(doc) == doc.isNew \/ doc.eventIdModified

\* validateBooking up to its await: the error thrown, or where the save goes on.
validateBooking(doc) ==
  IF trim(doc.email) = Str0 THEN "email is required and must be a non-empty string."
  ELSE IF ~isValidEmail(doc.email) THEN "Invalid email format."
  ELSE IF ~isValidObjectId(doc.eventId) THEN "eventId must be a valid ObjectId."
  ELSE IF NeedsLookup(doc) THEN "lookup"
  ELSE "write"

\* Event.exists({ _id: this.eventId })
EventExistsAlways(id) == TRUE
EventExists(id) == id \in eventIds

\* The unique index { eventId: 1, email: 1 }: another document holds the pair.
PairTaken(cand) ==
  \E o \in bookings : o.id # cand.id /\ o.eventId = cand.eventId /\ o.email = cand.email

IdsInUse ==
  {b.id : b \in bookings} \cup {bdoc[s].id : s \in {t \in Savers : bpc[t] # "idle"}}

BookInit ==
  /\ eventIds = {}
  /\ bookings = {}
  /\ bpc = [s \in Savers |-> "idle"]
  /\ bdoc = [s \in Savers |-> NoDoc]
  /\ bres = [s \in Savers |-> "none"]

\* No booking activity while another component is examined.
BookIdle ==
  /\ eventIds = {}
  /\ bookings = {}
  /\ bpc = << >>
  /\ bdoc = << >>
  /\ bres = << >>

\* The save of `doc` starts: validateBooking runs up to its first await.
StartSave(s, doc) ==
  LET r == validateBooking(doc) IN
  /\ IF r \in {"lookup", "write"}
       THEN /\ bpc' = [bpc EXCEPT ![s] = r]
            /\ bdoc' = [bdoc EXCEPT ![s] = doc]
            /\ bres' = [bres EXCEPT ![s] = "pending"]
       ELSE /\ bpc' = [bpc EXCEPT ![s] = "idle"]
            /\ bdoc' = [bdoc EXCEPT ![s] = NoDoc]
            /\ bres' = [bres EXCEPT ![s] = r]
  /\ UNCHANGED <<eventIds, bookings, notBook>>

\* new Booking({ eventId, email }).save()
SaveNew(s, raw, eid) ==
  /\ bpc[s] = "idle"
  /\ \E id \in BookingIds :
       /\ id \notin IdsInUse
       /\ \A j \in BookingIds : j < id => j \in IdsInUse
       /\ StartSave(s, [id |-> id, eventId |-> eid, email |-> emailSetter(raw),
                        raw |-> raw, isNew |-> TRUE, eventIdModified |-> TRUE,
                        emailModified |-> TRUE, eventExists |-> FALSE])

\* A persisted booking is loaded, one field is assigned (or none), and it is saved.
SaveExisting(s, b, field, raw, eid) ==
  /\ bpc[s] = "idle"
  /\ b \in bookings
  /\ LET email == IF field = "email" THEN emailSetter(raw) ELSE b.email
         eventId == IF field = "eventId" THEN eid ELSE b.eventId
     IN StartSave(s, [id |-> b.id, eventId |-> eventId, email |-> email,
                      raw |-> IF field = "email" THEN raw ELSE b.email,
                      isNew |-> FALSE, eventIdModified |-> eventId # b.eventId,
                      emailModified |-> email # b.email, eventExists |-> FALSE])

\* const eventExists = await Event.exists(...); if (!eventExists) throw ...
Lookup(s) ==
  /\ bpc[s] = "lookup"
  /\ IF EventExists(bdoc[s].eventId)
       THEN /\ bpc' = [bpc EXCEPT ![s] = "write"]
            /\ bdoc' = [bdoc EXCEPT ![s].eventExists = TRUE]
            /\ UNCHANGED bres
       ELSE /\ bpc' = [bpc EXCEPT ![s] = "idle"]
            /\ bres' = [bres EXCEPT ![s] = "Referenced event does not exist."]
            /\ bdoc' = [bdoc EXCEPT ![s] = NoDoc]
  /\ UNCHANGED <<eventIds, bookings, notBook>>

\* What the write leaves in the collection: an insert of a new document, or a
\* $set of the modified paths on the persisted one.
Written(doc) ==
  IF doc.isNew THEN [id |-> doc.id, eventId |-> doc.eventId, email |-> doc.email]
  ELSE LET cur == CHOOSE o \in bookings : o.id = doc.id IN
       [id |-> doc.id,
        eventId |-> IF doc.eventIdModified THEN doc.eventId ELSE cur.eventId,
        email |-> IF doc.emailModified THEN doc.email ELSE cur.email]

\* The store performs the write, under the unique index on (eventId, email).
\* (The caller keeps the rejected document; a written one is dropped here.)
Write(s) ==
  /\ bpc[s] = "write"
  /\ LET cand == Written(bdoc[s]) IN
     IF PairTaken(cand)
       THEN /\ bres' = [bres EXCEPT ![s] = "UniqueConstraintError"]
            /\ UNCHANGED <<bookings, bdoc>>
       ELSE /\ bres' = [bres EXCEPT ![s] = "ok"]
            /\ bookings' = {o \in bookings : o.id # cand.id} \cup {cand}
            /\ bdoc' = [bdoc EXCEPT ![s] = NoDoc]
  /\ bpc' = [bpc EXCEPT ![s] = "idle"]
  /\ UNCHANGED <<eventIds, notBook>>

\* An Event is inserted into / deleted from the events collection.
EventInserted(e) ==
  /\ e \notin eventIds
  /\ eventIds' = eventIds \cup {e}
  /\ UNCHANGED <<bookings, bpc, bdoc, bres, notBook>>
EventDeleted(e) ==
  /\ e \in eventIds
  /\ eventIds' = eventIds \ {e}
  /\ UNCHANGED <<bookings, bpc, bdoc, bres, notBook>>

\* What a re-save assigns: nothing, a new email, or a new eventId.
ResaveInputs ==
  {<<"none", Str0, InvalidId>>}
    \cup {<<"email", raw, InvalidId>> : raw \in RawEmails}
    \cup {<<"eventId", Str0, eid>> : eid \in EventIdSet \cup {InvalidId}}

BookNext ==
  \/ \E s \in Savers, raw \in RawEmails, eid \in EventIdSet \cup {InvalidId} :
       SaveNew(s, raw, eid)
  \/ \E s \in Savers, b \in bookings, in \in ResaveInputs :
       SaveExisting(s, b, in[1], in[2], in[3])
  \/ \E s \in Savers : Lookup(s)
  \/ \E s \in Savers : Write(s)
  \/ \E e \in EventIdSet : EventInserted(e)
  \/ \E e \in EventIdSet : EventDeleted(e)

\* ========================================================= Event documents
\* One Event save is under way at a time. The schema's maxlength validators are
\* left out: no input here comes near the limits.
EventDocIds == 1..MaxEvents

stringFields ==
  <<"title", "description", "overview", "image", "venue", "location", "date",
    "time", "mode", "audience", "organizer">>
StringFieldSet == {stringFields[i] : i \in 1..Len(stringFields)}

\* { type: String, trim: true }: the setter runs when the field is assigned.
schemaTrim(value) == IF value = Undefined THEN Undefined ELSE trim(value)
\* [{ type: String, trim: true }]
schemaTrimAll(list) == [i \in 1..Len(list) |-> trim(list[i])]

\* .map((item) => item.trim()).filter((item) => item.length > 0)
IsNonEmpty(item) == item # Str0
TrimAndFilter(list) == SelectSeq([i \in 1..Len(list) |-> trim(list[i])], IsNonEmpty)

IsRequiredString(value) == value # Undefined /\ trim(value) # Str0

\* !this.slug || titleChanged
DeriveSlugOnlyWhenMissing(slug, titleChanged) == slug = Undefined \/ slug = Str0
DeriveSlug(slug, titleChanged) == slug = Undefined \/ slug = Str0 \/ titleChanged

DocOk(doc) == [ok |-> TRUE, doc |-> doc, error |-> "none"]
DocThrow(doc, msg) == [ok |-> FALSE, doc |-> doc, error |-> msg]

\* The pre-save hook of the Event schema.
handleNormalize(doc, titleChanged) ==
  LET bad == {i \in 1..Len(stringFields) : ~IsRequiredString(doc[stringFields[i]])}
      first == CHOOSE i \in bad : \A j \in bad : i <= j
      trimmed == [f \in DOMAIN doc |-> IF f \in StringFieldSet THEN trim(doc[f]) ELSE doc[f]]
      agenda == TrimAndFilter(doc.agenda)
      tags == TrimAndFilter(doc.tags)
      date == normalizeDate(trimmed.date)
      time == normalizeTime(trimmed.time)
  IN
  IF bad # {} THEN DocThrow(doc, stringFields[first])
  ELSE IF Len(agenda) = 0 THEN DocThrow(doc, "agenda is required and must be a non-empty array.")
  ELSE IF Len(tags) = 0 THEN DocThrow(doc, "tags is required and must be a non-empty array.")
  ELSE IF ~date.ok THEN DocThrow(doc, date.error)
  ELSE IF ~time.ok THEN DocThrow(doc, time.error)
  ELSE DocOk([trimmed EXCEPT
                !.agenda = agenda,
                !.tags = tags,
                !.date = date.value,
                !.time = time.value,
                !.slug = IF DeriveSlug(trimmed.slug, titleChanged)
                           THEN toSlug(trimmed.title) ELSE trimmed.slug])

\* ---- inputs
RawTitles ==
  { <<"A", " ", "b">>,
    <<" ", "a", " ", " ", "b">>,
    <<"!">>,
    <<" ", " ">> }
RawTimes ==
  { <<"9", ":", "3", "0">>,
    <<"1", ":", "7", "5", " ", "p", "m">>,
    <<"2", "5", ":", "0", "0">> }
CallerSlug == <<"z">>
IsoDay == <<"2", "0", "2", "4", "-", "0", "3", "-", "0", "5">>
IsoInstant == IsoDay \o <<"T", "1", "0", ":", "0", "0", ":", "0", "0", "Z">>
Padded == <<" ", "x", " ">>

BaseFields(id, title, time, slug) ==
  [_id |-> id, title |-> title, slug |-> slug, description |-> Padded,
   overview |-> Padded, image |-> Padded, venue |-> Padded, location |-> Padded,
   date |-> IsoDay, time |-> time, mode |-> Padded, audience |-> Padded,
   organizer |-> Padded, agenda |-> <<Padded, <<" ">>>>, tags |-> <<Padded>>]

Variants ==
  {"plain", "noOrganizer", "blankDescription", "instantDate", "badDate",
   "blankAgenda", "noTags"}
Fields(id, title, time, slug, variant) ==
  LET base == BaseFields(id, title, time, slug) IN
  CASE variant = "noOrganizer" -> [base EXCEPT !.organizer = Undefined]
    [] variant = "blankDescription" -> [base EXCEPT !.description = <<" ">>]
    [] variant = "instantDate" -> [base EXCEPT !.date = IsoInstant]
    [] variant = "badDate" -> [base EXCEPT !.date = <<"s", "o", "o", "n">>]
    [] variant = "blankAgenda" -> [base EXCEPT !.agenda = <<<<" ">>, <<" ", " ">>>>]
    [] variant = "noTags" -> [base EXCEPT !.tags = << >>]
    [] OTHER -> base

\* new Event(fields): every assignment goes through the schema's setters.
Constructed(fields) ==
  [f \in DOMAIN fields |->
     IF f \in StringFieldSet THEN schemaTrim(fields[f])
     ELSE IF f \in {"agenda", "tags"} THEN schemaTrimAll(fields[f])
     ELSE fields[f]]

NoEventDoc ==
  [doc |-> BaseFields(0, Str0, Str0, Undefined), isNew |-> FALSE, titleChanged |-> FALSE,
   slugIn |-> Undefined, slugAssigned |-> FALSE]

\* The unique index { slug: 1 }: another document holds the slug.
SlugTakenNever(doc) == FALSE
SlugTaken(doc) == \E o \in evStore : o._id # doc._id /\ o.slug = doc.slug

EventInit ==
  /\ evStore = {}
  /\ evPc = "idle"
  /\ evDoc = NoEventDoc
  /\ evRes = "none"
  /\ slugByCaller = {}

\* No event activity while another component is examined.
EventIdle ==
  /\ evStore = {}
  /\ evPc = "off"
  /\ evDoc = NoEventDoc
  /\ evRes = "none"
  /\ slugByCaller = {}

\* The save of `doc` starts: handleNormalize runs (it has no await).
StartEventSave(doc, isNew, titleChanged, slugAssigned) ==
  LET r == handleNormalize(doc, titleChanged) IN
  /\ IF r.ok
       THEN /\ evPc' = "write"
            /\ evDoc' = [doc |-> r.doc, isNew |-> isNew, titleChanged |-> titleChanged,
                         slugIn |-> doc.slug, slugAssigned |-> slugAssigned]
            /\ evRes' = "pending"
       ELSE /\ evPc' = "idle"
            /\ evDoc' = NoEventDoc
            /\ evRes' = r.error
  /\ UNCHANGED <<evStore, slugByCaller, notEvent>>

\* new Event(fields).save()
EventCreate(title, time, slug, variant) ==
  /\ evPc = "idle"
  /\ \E id \in EventDocIds :
       /\ \A o \in evStore : o._id # id
       /\ \A j \in EventDocIds : j < id => \E o \in evStore : o._id = j
       /\ StartEventSave(Constructed(Fields(id, title, time, slug, variant)),
                         TRUE, title # Undefined, slug # Undefined)

\* A persisted event is loaded, one field is assigned (or none), and it is saved.
EventResave(e, field, title, time) ==
  /\ evPc = "idle"
  /\ e \in evStore
  /\ LET doc == CASE field = "title" -> [e EXCEPT !.title = schemaTrim(title)]
                  [] field = "time" -> [e EXCEPT !.time = schemaTrim(time)]
                  [] field = "slug" -> [e EXCEPT !.slug = CallerSlug]
                  [] OTHER -> e
     IN StartEventSave(doc, FALSE, doc.title # e.title, field = "slug")

\* The store performs the write, under the unique index on slug.
\* (The caller keeps the rejected document; of a written one only how it was saved
\* is kept here.)
EventWrite ==
  /\ evPc = "write"
  /\ IF SlugTaken(evDoc.doc)
       THEN /\ evRes' = "UniqueConstraintError"
            /\ UNCHANGED <<evStore, slugByCaller, evDoc>>
       ELSE /\ evRes' = "ok"
            /\ evDoc' = [NoEventDoc EXCEPT !.isNew = evDoc.isNew,
                                           !.titleChanged = evDoc.titleChanged]
            /\ evStore' = {o \in evStore : o._id # evDoc.doc._id} \cup {evDoc.doc}
            /\ slugByCaller' = IF evDoc.slugAssigned /\ ~evDoc.titleChanged
                                 THEN slugByCaller \cup {evDoc.doc._id}
                                 ELSE slugByCaller
  /\ evPc' = "idle"
  /\ UNCHANGED notEvent

\* An event is deleted by the persistence layer.
EventRemove(e) ==
  /\ evPc = "idle"
  /\ e \in evStore
  /\ evStore' = evStore \ {e}
  /\ slugByCaller' = slugByCaller \ {e._id}
  /\ UNCHANGED <<evPc, evDoc, evRes, notEvent>>

\* What a create is given: every title, time and slug with the other fields
\* plain, and every variant of the other fields with one title and time.
PlainTitle == <<"A", " ", "b">>
PlainTime == <<"9", ":", "3", "0">>
CreateInputs ==
  {<<title, time, Undefined, "plain">> : title \in RawTitles, time \in RawTimes}
    \cup {<<PlainTitle, PlainTime, Undefined, variant>> : variant \in Variants}
    \cup {<<PlainTitle, PlainTime, CallerSlug, "plain">>}
\* What a re-save assigns: nothing, a new title, a new time, or the slug.
EventResaveInputs ==
  {<<"none", Str0, Str0>>, <<"slug", Str0, Str0>>}
    \cup {<<"title", title, Str0>> : title \in RawTitles}
    \cup {<<"time", Str0, time>> : time \in RawTimes}

EventNext ==
  \/ \E in \in CreateInputs : EventCreate(in[1], in[2], in[3], in[4])
  \/ \E e \in evStore, in \in EventResaveInputs : EventResave(e, in[1], in[2], in[3])
  \/ EventWrite
  \/ \E e \in evStore : EventRemove(e)

\* ======================================================== specifications
InitConn == ConnInit /\ BookIdle /\ EventIdle /\ TimeIdle
SpecConn ==
  /\ InitConn
  /\ [][ConnNext]_vars

InitBooking == BookInit /\ ConnIdle /\ EventIdle /\ TimeIdle
SpecBooking ==
  /\ InitBooking
  /\ [][BookNext]_vars

InitEvent == EventInit /\ ConnIdle /\ BookIdle /\ TimeIdle
SpecEvent ==
  /\ InitEvent
  /\ [][EventNext]_vars

InitTime == TimeInit /\ ConnIdle /\ BookIdle /\ EventIdle
SpecTime ==
  /\ InitTime
  /\ [][TimeNext]_vars

\* ================================================================ claims

\* ---- connectToDatabase

InFlight == {a \in Attempts : attempt[a] = "connecting"}
Failed == {a \in Attempts : attempt[a] \in {"connectFailed", "thenRejected", "rejected"}}
Started == {a \in Attempts : attempt[a] # "unused"}

\* C1: while no live connection is cached, concurrent callers share one
\* establishment: at most one mongoose.connect is in flight at any time, at most
\* one establishment that has not failed was ever started, every awaiting caller
\* awaits a started one, all callers awaiting a non-failed establishment await the
\* same one, and every handle ever returned is the same handle.
SingleEstablishment ==
  /\ Cardinality(InFlight) <= 1
  /\ Cardinality(Started \ Failed) <= 1
  /\ \A c \in Callers : cpc[c] = "awaiting" => cawait[c] \in Started
  /\ \A c, d \in Callers :
       (cpc[c] = "awaiting" /\ cpc[d] = "awaiting"
          /\ cawait[c] \notin Failed /\ cawait[d] \notin Failed) => cawait[c] = cawait[d]
  /\ Cardinality(handed) <= 1
  /\ \A c \in Callers : cpc[c] = "returned" => cres[c] = Handle(cachedConn)

\* Two callers raced on the first establishment and got the same handle: one has
\* returned it, the other still awaits the same, fulfilled, promise.
SingleEstablishmentWitness ==
  \E c, d \in Callers :
    /\ c # d
    /\ cpc[c] = "returned" /\ cawait[c] # Null /\ cres[c] = Handle(cawait[c])
    /\ cpc[d] = "awaiting" /\ cawait[d] = cawait[c]
    /\ attempt[cawait[c]] = "fulfilled"
    /\ Started = {cawait[c]}

\* C2: a failed establishment is not cached (neither as the in-flight promise nor
\* as the live connection); every caller awaiting it gets the error, without a
\* retry inside that call; and the next call with nothing cached starts a fresh
\* establishment.
FailureNotCached ==
  /\ [](\A a \in Attempts : attempt[a] = "rejected" => cachedPromise # a /\ cachedConn # a)
  /\ [][\A c \in Callers :
          /\ (cpc[c] = "awaiting" /\ attempt[cawait[c]] = "rejected" /\ cpc'[c] # "awaiting")
               => /\ cpc'[c] = "threw"
                  /\ cres'[c] = Failure("ConnectionError")
                  /\ attempt' = attempt
                  /\ cachedPromise' = cachedPromise
          /\ (cpc[c] = "idle" /\ cpc'[c] # "idle" /\ uri
                /\ cachedConn = Null /\ cachedPromise = Null)
               => /\ cpc'[c] = "awaiting"
                  /\ attempt[cawait'[c]] = "unused"
                  /\ attempt'[cawait'[c]] = "connecting"
                  /\ cachedPromise' = cawait'[c]]_vars

\* The first establishment failed, a caller received the error, and a later call
\* has started the second establishment.
FailureNotCachedWitness ==
  /\ attempt[1] = "rejected"
  /\ attempt[2] = "connecting"
  /\ cachedPromise = 2
  /\ \E c \in Callers : cpc[c] = "threw" /\ cres[c] = Failure("ConnectionError")

\* C3 as stated: with a live connection cached, every call returns the cached
\* handle immediately, whatever the configuration value is.
LiveConnAlwaysReturned ==
  [][\A c \in Callers :
       (cpc[c] = "idle" /\ cpc'[c] # "idle" /\ cachedConn # Null)
         => /\ cpc'[c] = "returned"
            /\ cres'[c] = Handle(cachedConn)
            /\ attempt' = attempt]_vars

\* C3 amended: with a live connection cached, a call made while MONGODB_URI is set
\* returns the cached handle immediately; a call made while it is not set throws
\* the configuration error. Either way nothing is started, awaited or changed in
\* the cache.
LiveConnReturnedWhenConfigured ==
  [][\A c \in Callers :
       (cpc[c] = "idle" /\ cpc'[c] # "idle" /\ cachedConn # Null)
         => /\ IF uri
                 THEN cpc'[c] = "returned" /\ cres'[c] = Handle(cachedConn)
                 ELSE cpc'[c] = "threw" /\ cres'[c] = Failure("ConfigurationError")
            /\ attempt' = attempt
            /\ cachedPromise' = cachedPromise
            /\ cachedConn' = cachedConn]_vars

\* With the connection cached, one call has returned it without awaiting and
\* another, made while the variable was unset, has thrown.
LiveConnWitness ==
  \E c, d \in Callers :
    /\ cachedConn # Null
    /\ cpc[c] = "returned" /\ cawait[c] = Null /\ cres[c] = Handle(cachedConn)
    /\ cpc[d] = "threw" /\ cres[d] = Failure("ConfigurationError")

\* ---- Booking

emailKey(email) == toLowerCase(trim(email))
\* The email a save submits: what the caller assigned, or the persisted one.
SubmittedEmail(doc) ==
  IF doc.isNew \/ doc.emailModified THEN doc.raw ELSE Written(doc).email

\* C4: the persisted bookings hold at most one record per (eventId, email) with
\* the email compared trimmed and lowercased, and a write whose eventId equals and
\* whose email equals, up to case and surrounding blanks, that of another
\* persisted booking fails with the uniqueness violation and persists nothing.
OneBookingPerPair ==
  /\ [](\A b1, b2 \in bookings :
          (b1.eventId = b2.eventId /\ emailKey(b1.email) = emailKey(b2.email)) => b1 = b2)
  /\ [][\A s \in Savers :
          (/\ bpc[s] = "write" /\ bpc'[s] = "idle"
           /\ \E o \in bookings :
                /\ o.id # bdoc[s].id
                /\ o.eventId = Written(bdoc[s]).eventId
                /\ emailKey(o.email) = emailKey(SubmittedEmail(bdoc[s])))
            => bres'[s] = "UniqueConstraintError" /\ bookings' = bookings]_vars

\* A save was rejected by the unique index although the email it was given is
\* spelled differently from the persisted one.
OneBookingPerPairWitness ==
  \E s \in Savers : \E o \in bookings :
    /\ bpc[s] = "idle" /\ bres[s] = "UniqueConstraintError"
    /\ o.id # bdoc[s].id
    /\ o.eventId = bdoc[s].eventId
    /\ bdoc[s].raw # o.email
    /\ emailKey(bdoc[s].raw) = o.email

NewBooking(raw, eid) ==
  [id |-> 1, eventId |-> eid, email |-> emailSetter(raw), raw |-> raw, isNew |-> TRUE,
   eventIdModified |-> TRUE, emailModified |-> TRUE, eventExists |-> FALSE]

\* C5: a save of a new booking, or of one whose eventId was changed, with a
\* well-formed email and a valid eventId goes through the existence lookup, and
\* when the lookup finds no Event the save fails with "Referenced event does not
\* exist." and the persisted bookings stay as they are.
MissingEventRejected ==
  /\ [](\A raw \in RawEmails : \A eid \in EventIdSet :
          isValidEmail(emailSetter(raw)) => validateBooking(NewBooking(raw, eid)) = "lookup")
  /\ [][\A s \in Savers :
          /\ (bpc[s] = "idle" /\ bpc'[s] # "idle"
                /\ (bdoc'[s].isNew \/ bdoc'[s].eventIdModified))
               => bpc'[s] = "lookup"
          /\ (bpc[s] = "lookup" /\ bpc'[s] # "lookup" /\ bdoc[s].eventId \notin eventIds)
               => /\ bpc'[s] = "idle"
                  /\ bres'[s] = "Referenced event does not exist."
                  /\ bookings' = bookings]_vars

\* A save has just failed on the lookup, for an eventId no Event has.
MissingEventRejectedWitness ==
  \E s \in Savers :
    /\ bpc[s] = "idle"
    /\ bres[s] = "Referenced event does not exist."
    /\ eventIds = {}

\* C10 as stated: when a new booking is written, the Event it references is in
\* the store.
EventExistsAtWrite ==
  [][\A s \in Savers :
       (bpc[s] = "write" /\ bpc'[s] = "idle" /\ bres'[s] = "ok" /\ bdoc[s].isNew)
         => bdoc[s].eventId \in eventIds]_vars

\* C10 amended: the Event referenced by a new booking was in the store when the
\* save's existence lookup ran, and the write follows that lookup; the Event may
\* be deleted between the two.
EventExistedAtLookup ==
  /\ [](\A s \in Savers : (bpc[s] = "write" /\ bdoc[s].isNew) => bdoc[s].eventExists)
  /\ [][\A s \in Savers :
          /\ (bpc[s] = "lookup" /\ bpc'[s] = "write")
               => bdoc[s].eventId \in eventIds /\ bdoc'[s].eventExists
          /\ (bres'[s] = "ok" /\ bres[s] # "ok") => bpc[s] = "write"]_vars

\* A new booking has passed the lookup and waits for its write while the Event
\* has been deleted.
EventExistedAtLookupWitness ==
  \E s \in Savers :
    /\ bpc[s] = "write"
    /\ bdoc[s].isNew /\ bdoc[s].eventExists
    /\ bdoc[s].eventId \notin eventIds

\* ---- Event

\* C7: no two persisted Events have the same slug; a write whose slug another
\* persisted Event holds fails with the uniqueness violation and leaves the
\* events as they are; the error comes from the write, never from the pipeline.
UniqueSlugs ==
  /\ [](\A e1, e2 \in evStore : (e1.slug = e2.slug \/ e1._id = e2._id) => e1 = e2)
  /\ [][/\ (evPc = "write"
              /\ \E o \in evStore : o._id # evDoc.doc._id /\ o.slug = evDoc.doc.slug)
             => evRes' = "UniqueConstraintError" /\ evStore' = evStore
        /\ (evPc = "idle" /\ evRes' = "UniqueConstraintError") => evRes = "UniqueConstraintError"
        /\ (evPc = "idle" /\ evPc' = "write" /\ evDoc'.isNew)
             => evDoc'.doc.slug = toSlug(evDoc'.doc.title)]_vars

\* A new Event whose title differs from a persisted one's but gives the same slug
\* was rejected by the write.
UniqueSlugsWitness ==
  /\ evPc = "idle" /\ evRes = "UniqueConstraintError"
  /\ evDoc.isNew
  /\ \E o \in evStore :
       /\ o._id # evDoc.doc._id
       /\ o.title # evDoc.doc.title
       /\ o.slug = evDoc.doc.slug
       /\ o.slug = toSlug(evDoc.doc.title)

SlugUnset(slug) == slug = Undefined \/ slug = Str0

\* C8: a successful save in which the slug was unset or the title changed stores
\* slug = toSlug(stored title); a successful save that changes no title and finds
\* a slug leaves that slug; so an Event whose slug the caller never assigned
\* always has slug = toSlug(title).
SlugFollowsTitle ==
  /\ [](\A e \in evStore : e._id \notin slugByCaller => e.slug = toSlug(e.title))
  /\ [][(evPc = "write" /\ evRes' = "ok")
          => LET stored == CHOOSE o \in evStore' : o._id = evDoc.doc._id IN
             /\ stored.title = trim(stored.title)
             /\ IF SlugUnset(evDoc.slugIn) \/ evDoc.titleChanged
                  THEN stored.slug = toSlug(stored.title)
                  ELSE stored.slug = evDoc.slugIn]_vars

\* A re-save that changed the title of a persisted Event has succeeded.
SlugFollowsTitleWitness ==
  /\ evPc = "idle" /\ evRes = "ok"
  /\ ~evDoc.isNew /\ evDoc.titleChanged
  /\ \E e \in evStore : e.slug = toSlug(e.title) /\ e.slug # Str0

\* C9 as stated: the pipeline run again on a persisted Event, with no field
\* changed, succeeds and leaves every field as stored.
ResaveStable ==
  \A e \in evStore :
    LET r == handleNormalize(e, FALSE) IN r.ok /\ r.doc = e

\* ---- normalizeTime

\* HH:MM with hour 00-23 and minute 00-59
IsCanonicalTime(s) ==
  /\ Len(s) = 5
  /\ s[3] = ":"
  /\ AllDigits(SubSeq(s, 1, 2)) /\ AllDigits(SubSeq(s, 4, 5))
  /\ NumberOf(SubSeq(s, 1, 2)) \in 0..23
  /\ NumberOf(SubSeq(s, 4, 5)) \in 0..59

\* C6 as stated: whenever normalizeTime accepts its input, the result is a
\* zero-padded 24-hour HH:MM with hour 00-23 and minute 00-59.
AcceptedTimeIsCanonical ==
  (timePc = "done" /\ timeOut.ok) => IsCanonicalTime(timeOut.value)
====
